---------------------------- MODULE Spec2Model ----------------------------
(***************************************************************************)
(* AudioHook server: the connection life cycle of SessionManager           *)
(* (app/handler/session_manager.py), the per-session record                *)
(* WebSocketSessionStorage (app/models.py) and the recognition callbacks   *)
(* of AzureAISpeechProvider (app/speech/azure_ai_speech_provider.py).      *)
(*                                                                         *)
(* The server runs on one asyncio event loop: the code between two awaits  *)
(* is one atomic step, and every action below is one such segment.        *)
(* MessageHandler and MediaHandler are not part of the sources at hand;    *)
(* the operators that stand for them follow the written specification.    *)
(***************************************************************************)
EXTENDS Integers, Sequences, FiniteSets, TLC

(* ------------------------------ bounds -------------------------------- *)
NumConns == 2
    \* connections offered to the server
MaxFrames == 3
    \* inbound frames read by all receive loops together
MaxResults == 2
    \* final recognition results delivered by the recognizer, all sessions
MaxMedia == 2
    \* media descriptors offered by one open message

(* ------------------------------ domains ------------------------------- *)
Conns == 1..NumConns
NoConn == 0
Sids == {"s1", "s2"}
Absent == "<absent>"
    \* a header the request does not carry: headers[...] raises on it
NoneVal == "<None>"
    \* Python's None
ApiKey == "key"
    \* os.getenv("WEBSOCKET_SERVER_API_KEY")
Descriptors == 1..MaxMedia
    \* the media formats an open message may offer
\* The offers of an open message: up to MaxMedia descriptors, in either order.
MediaLists ==
    UNION {{[i \in 1..n |-> i], [i \in 1..n |-> n + 1 - i]} : n \in 1..MaxMedia}

AllHeaders ==
    [sid : {Absent, ""} \cup Sids, key : {Absent, ApiKey, "bad"},
     corr : {Absent, "corr"}, sigin : {Absent, "", "v"}, sig : {Absent, "", "v"}]

GoodHeader(s) == [sid |-> s, key |-> ApiKey, corr |-> "corr", sigin |-> "v", sig |-> "v"]

VARIABLES
    main,       \* server.main(): where it is, what create_server raised, the exit
                \* status of the process and the calls of server.app.run
    secret,     \* os.getenv("WEBSOCKET_SERVER_CLIENT_SECRET")
    pc,         \* position of each connection task in handle_websocket
    result,     \* how handle_websocket ended
    hdr,        \* websocket.headers of each connection
    accepted,   \* websocket.accept() was called
    alive,      \* the peer still takes what is written to the socket
    sent,       \* what was written to each socket, in order
    closeCode,  \* the code of websocket.close(code), 0 while not closed
    dcall,      \* the call of disconnect made for the connection
    joined,     \* the connection has registered a session
    table,      \* active_ws_sessions: session id -> session record (by creator)
    rec,        \* the WebSocketSessionStorage created by each connection
    wsess,      \* the session record the running handler was given
    cur,        \* the client message the running handler was given
    pend,       \* envelopes handed to websocket.send_json, not yet written
    emit,       \* the envelopes send_message built from each record, in order
    lastSeq,    \* seq of the last client message dispatched with each record
    nText,      \* text messages the client of each connection has sent
    provCalls,  \* provider-originated calls of send_message_callback
    provRaised, \* those of them that raised before building an envelope
    frames,     \* frames read so far
    results,    \* recognition results delivered so far
    hist,       \* what each connection has seen of close messages and audio
    store,      \* what set_active has done to the conversation of each connection
    event_publisher, \* self.event_publisher is set (an Event Hub is configured)
    effects,    \* of each session: the coroutines _on_recognized scheduled and
                \* what they did to the event sink and the conversation store
    cached_access_token, \* identity._cached_access_token
    clock,      \* time.time(), in seconds
    token_call, \* the last call of get_access_token and how it ended
    manager,    \* the SessionManager: its environment, resources and handlers
    timing      \* the timing fields of what the provider built last

vars == <<main, secret, pc, result, hdr, accepted, alive, sent, closeCode, dcall, joined,
          table, rec, wsess, cur, pend, emit, lastSeq, nText, provCalls, provRaised, frames,
          results, hist, store, event_publisher, effects,
          cached_access_token, clock, token_call, manager, timing>>

\* What the connection handlers leave alone.
aside == <<cached_access_token, clock, token_call, manager, timing>>

(* ------------------------- WebSocketSessionStorage -------------------- *)
\* speech_session: None, or the AzureAISpeechSession of initialize_session with
\* its audio stream, its recognition task, the assist tasks not yet finished and
\* the event-message coroutines scheduled and not yet run.
NoSpeech == [init |-> FALSE, stream |-> "none", task |-> "none", media |-> NoneVal,
             sid |-> NoneVal, assist |-> 0, msgs |-> 0, written |-> 0]

NewSession == [client_seq |-> 0, server_seq |-> 0, conversation_id |-> NoneVal,
               speech_session |-> NoSpeech]

NoMessage == [kind |-> "model", type |-> NoneVal, id |-> NoneVal, seq |-> 0, media |-> <<>>]

\* Of a connection: the binary frames it has read, what became of its last
\* close message (dropped: shutdown_session returned at once; handled: the
\* stream was closed; finalized: the finalize callback ran) and of the binary
\* frames read since that close message.
NoHistory == [bytes |-> 0, close |-> "none", late |-> "none"]

\* Of a session: the send_event coroutines and the transcript updates that are
\* scheduled and not yet run, the events published, the exceptions send_event
\* raised, the transcript of the conversation in the store, and the threads on
\* which code started by a recognizer callback touched the session, and the
\* last final result the recognizer delivered.
NoEffects == [events |-> 0, published |-> 0, raised |-> 0, updates |-> <<>>,
              transcript |-> <<>>, threads |-> {},
              last |-> [n |-> 0, status |-> NoneVal, words |-> 0]]

NoCall == [made |-> FALSE, code |-> 0, owner |-> NoConn, session_id |-> NoneVal,
           target |-> NoConn]

\* _cached_access_token: AccessToken = None.  An AccessToken carries its expiry;
\* the scope it was issued for and the time of issue stand for its token string.
NoToken == [scope |-> NoneVal, issued_at |-> 0, expires_on |-> 0]

NoTokenCall == [made |-> FALSE, scope |-> NoneVal, now |-> 0, requested |-> FALSE,
                raised |-> FALSE, returned |-> NoToken]

\* os.environ as create_connections reads it: SPEECH_PROVIDER by its value
\* (Absent: not set), every other variable by whether it is set and not empty.
NoEnvironment ==
    [SPEECH_PROVIDER |-> Absent, AZURE_SPEECH_REGION |-> FALSE, AZURE_SPEECH_KEY |-> FALSE,
     AZURE_SPEECH_RESOURCE_ID |-> FALSE, AZURE_OPENAI_ENDPOINT |-> FALSE,
     AZURE_OPENAI_MODEL_DEPLOYMENT |-> FALSE, AZURE_EVENT_HUB |-> FALSE]

\* SessionManager.__init__: resources and handlers are None.
NewManager ==
    [pc |-> "new", env |-> NoEnvironment, raised |-> NoneVal,
     conversations_store |-> NoneVal, event_publisher |-> NoneVal,
     speech_provider |-> NoneVal, health_handler |-> NoneVal,
     message_handler |-> NoneVal, media_handler |-> NoneVal]

\* Nothing built yet.
NoItems == [source |-> NoneVal, offset |-> 0, duration |-> 0, fields |-> <<>>]

Init ==
    /\ main = [pc |-> "start", error |-> NoneVal, status |-> NoneVal, runs |-> 0]
    /\ secret \in {NoneVal, "secret"}
    /\ pc = [c \in Conns |-> "idle"]
    /\ result = [c \in Conns |-> "none"]
    /\ hdr = [c \in Conns |-> GoodHeader("s1")]
    /\ accepted = [c \in Conns |-> FALSE]
    /\ alive = [c \in Conns |-> TRUE]
    /\ sent = [c \in Conns |-> <<>>]
    /\ closeCode = [c \in Conns |-> 0]
    /\ dcall = [c \in Conns |-> NoCall]
    /\ joined = [c \in Conns |-> FALSE]
    /\ table = [s \in Sids |-> NoConn]
    /\ rec = [c \in Conns |-> NewSession]
    /\ wsess = [c \in Conns |-> NoConn]
    /\ cur = [c \in Conns |-> NoMessage]
    /\ pend = {}
    /\ emit = [c \in Conns |-> <<>>]
    /\ lastSeq = [c \in Conns |-> 0]
    /\ nText = [c \in Conns |-> 0]
    /\ provCalls = [c \in Conns |-> 0]
    /\ provRaised = [c \in Conns |-> 0]
    /\ frames = 0
    /\ results = 0
    /\ hist = [c \in Conns |-> NoHistory]
    /\ store = [c \in Conns |-> "untouched"]
    /\ event_publisher \in BOOLEAN
    /\ effects = [c \in Conns |-> NoEffects]
    /\ cached_access_token = NoToken
    /\ clock = 0
    /\ token_call = NoTokenCall
    /\ manager = NewManager
    /\ timing = NoItems


(* ------------------------------ disconnect ---------------------------- *)
\* The socket whose callbacks a session record was built with
\* (send_message_callback and close_websocket_callback close over it).
SessionSocket(r) == r

Registered(session_id) == session_id \in Sids /\ table[session_id] # NoConn

\* DisconnectMessage(version="2", type=DISCONNECT, seq=1, clientseq=1, ...)
DisconnectMessage_SessionCounters(reason, info, session_id) ==
    [type |-> "disconnect",
     seq |-> IF Registered(session_id) THEN rec[table[session_id]].server_seq + 1 ELSE 1,
     clientseq |-> IF Registered(session_id) THEN rec[table[session_id]].client_seq ELSE 1,
     id |-> session_id, reason |-> reason, info |-> info]

DisconnectMessage(reason, info, session_id) ==
    [type |-> "disconnect", seq |-> 1, clientseq |-> 1, id |-> session_id,
     reason |-> reason, info |-> info]

\* if websocket: ... ; if session_id in self.active_ws_sessions: ... ; else nothing.
DisconnectSocket(session_id, websocket) ==
    IF websocket # NoConn THEN websocket
    ELSE IF Registered(session_id) THEN SessionSocket(table[session_id])
    ELSE NoConn

Disconnect(c, reason, info, code, session_id, websocket) ==
    LET sid == IF session_id = NoneVal THEN "unknown" ELSE session_id
        msg == DisconnectMessage(reason, info, sid)
        t == DisconnectSocket(sid, websocket)
    IN  /\ dcall' = [dcall EXCEPT ![c] =
                        [made |-> TRUE, code |-> code, session_id |-> sid, target |-> t,
                         owner |-> IF Registered(sid) THEN table[sid] ELSE NoConn]]
        /\ IF t = NoConn
              THEN UNCHANGED <<sent, closeCode>>
              ELSE /\ sent' = [sent EXCEPT ![t] = Append(@, [msg |-> msg, rec |-> NoConn])]
                   /\ closeCode' = [closeCode EXCEPT ![t] = code]
        /\ pc' = [pc EXCEPT ![c] = "done"]
        /\ result' = [result EXCEPT ![c] = "rejected"]

\* An exception other than CancelledError leaves handle_websocket uncaught.
Crash(c) ==
    /\ pc' = [pc EXCEPT ![c] = "done"]
    /\ result' = [result EXCEPT ![c] = "crashed"]

(* -------------------------------- server.py --------------------------- *)
\* create_server: try: server = WebsocketServer(); return server
\* except Exception as e: raise RuntimeError(f"Server initialization failed: {e}")
CreateServer_Reraises(constructed) ==
    IF constructed THEN NoneVal ELSE "Exception"

CreateServer(constructed) ==
    IF constructed THEN NoneVal ELSE "RuntimeError"

\* main: configure_logging(), create_server(), server.app.run(), all in a try
\* whose except Exception logs and calls sys.exit(1).  app.run() serves the
\* connections until the process is stopped.
Main(constructed) ==
    /\ main.pc = "start"
    /\ LET raised == CreateServer(constructed)
       IN  main' = IF raised = NoneVal
                   THEN [main EXCEPT !.pc = "running", !.runs = @ + 1]
                   ELSE [main EXCEPT !.pc = "exited", !.error = raised, !.status = 1]
    /\ UNCHANGED <<aside, secret, event_publisher, effects, pc, result, hdr, accepted, alive, sent,
                   closeCode, dcall, joined, table, rec, wsess, cur, pend, emit, lastSeq,
                   nText, provCalls, provRaised, frames, results, hist, store>>

(* --------------------------- handle_websocket ------------------------- *)
\* The running server is given a connection; the request carries its headers.  Clients
\* arrive one after the other: the handshake of the one before is over.
Connect(c, h) ==
    /\ main.pc = "running"
    /\ pc[c] = "idle"
    /\ \A d \in Conns : d < c => pc[d] \notin {"idle", "validate", "accepted"}
    /\ pc' = [pc EXCEPT ![c] = "validate"]
    /\ hdr' = [hdr EXCEPT ![c] = h]
    /\ UNCHANGED <<aside, main, secret, event_publisher, effects, result, accepted, alive, sent, closeCode, dcall, joined, table, rec,
                   wsess, cur, pend, emit, lastSeq, nText, provCalls, provRaised, frames,
                   results,
                   hist, store>>

\* session_id = headers["Audiohook-Session-Id"]; if not session_id: ...
\* if headers["X-Api-Key"] != os.getenv("WEBSOCKET_SERVER_API_KEY"): ...
\* Looking up a header the request does not carry raises.
HeaderCheck_KeyFirst(h) ==
    IF h.key = Absent THEN "raise"
    ELSE IF h.key # ApiKey THEN "invalid_api_key"
    ELSE IF h.sid = Absent THEN "raise"
    ELSE IF h.sid = "" THEN "no_session_id"
    ELSE "accept"

HeaderCheck_KeyNotCompared(h) ==
    IF h.sid = Absent THEN "raise"
    ELSE IF h.sid = "" THEN "no_session_id"
    ELSE IF h.key = Absent THEN "raise"
    ELSE "accept"

HeaderCheck(h) ==
    IF h.sid = Absent THEN "raise"
    ELSE IF h.sid = "" THEN "no_session_id"
    ELSE IF h.key = Absent THEN "raise"
    ELSE IF h.key # ApiKey THEN "invalid_api_key"
    ELSE "accept"

\* handle_websocket up to "await websocket.accept()"
ValidateHeaders(c) ==
    /\ pc[c] = "validate"
    /\ CASE HeaderCheck(hdr[c]) = "raise" ->
              Crash(c) /\ UNCHANGED <<accepted, sent, closeCode, dcall>>
         [] HeaderCheck(hdr[c]) = "no_session_id" ->
              /\ Disconnect(c, "error", "No session ID provided", 1008, NoneVal, c)
              /\ UNCHANGED accepted
         [] HeaderCheck(hdr[c]) = "invalid_api_key" ->
              /\ Disconnect(c, "unauthorized", "Invalid API Key", 3000, hdr[c].sid, c)
              /\ UNCHANGED accepted
         [] OTHER ->
              /\ accepted' = [accepted EXCEPT ![c] = TRUE]
              /\ pc' = [pc EXCEPT ![c] = "accepted"]
              /\ UNCHANGED <<result, sent, closeCode, dcall>>
    /\ UNCHANGED <<aside, main, secret, event_publisher, effects, hdr, alive, joined, table, rec, wsess, cur, pend, emit,
                   lastSeq, nText, provCalls, provRaised, frames, results,
                   hist, store>>

\* if not signature_input and not signature and not client_secret
NoSignatureMaterial(signature_input, signature, client_secret) ==
    /\ signature_input = ""
    /\ signature = ""
    /\ client_secret \in {NoneVal, ""}

\* After accept: the correlation id and the signature headers are looked up,
\* the signature material is tested, then
\* self.active_ws_sessions[session_id] = WebSocketSessionStorage(...)
RegisterSession(c) ==
    /\ pc[c] = "accepted"
    /\ IF Absent \in {hdr[c].corr, hdr[c].sigin, hdr[c].sig}
          THEN Crash(c) /\ UNCHANGED <<sent, closeCode, dcall, joined, table, rec>>
       ELSE IF NoSignatureMaterial(hdr[c].sigin, hdr[c].sig, secret)
          THEN /\ Disconnect(c, "unauthorized", "Invalid signature", 3000, hdr[c].sid, c)
               /\ UNCHANGED <<joined, table, rec>>
       ELSE /\ table' = [table EXCEPT ![hdr[c].sid] = c]
            /\ rec' = [rec EXCEPT ![c] = NewSession]
            /\ joined' = [joined EXCEPT ![c] = TRUE]
            /\ pc' = [pc EXCEPT ![c] = "recv"]
            /\ UNCHANGED <<result, sent, closeCode, dcall>>
    /\ UNCHANGED <<aside, main, secret, event_publisher, effects, hdr, accepted, alive, wsess, cur, pend, emit, lastSeq, nText,
                   provCalls, provRaised, frames, results,
                   hist, store>>

(* ------------------------------ send_message -------------------------- *)
EmptyParams == [startPaused |-> Absent, media |-> <<>>, entities |-> <<>>]

\* A validated client message (a pydantic model) and the dict {"id": session_id}
\* the provider passes as client_message.
ClientModel(type, id, seq, media) ==
    [kind |-> "model", type |-> type, id |-> id, seq |-> seq, media |-> media]
ClientDict(id) ==
    [kind |-> "dict", type |-> NoneVal, id |-> id, seq |-> 0, media |-> <<>>]

\* session_id = client_message.id ; ws_session = self.active_ws_sessions[session_id]
\* Attribute access on a dict raises, and so does the lookup of an absent key.
SendRaises_DictAccepted(tbl, client_message) ==
    tbl[client_message.id] = NoConn

SendRaises(tbl, client_message) ==
    \/ client_message.kind = "dict"
    \/ tbl[client_message.id] = NoConn

\* ws_session.server_seq += 1
NextServerSeq_Skip(server_seq) == server_seq + 2

NextServerSeq(server_seq) == server_seq + 1

\* ServerMessageBase(version="2", type=type, seq=ws_session.server_seq,
\*                   clientseq=client_message.seq, id=session_id, parameters=parameters)
ServerMessage_NoParameters(type, server_seq, client_message, parameters) ==
    [type |-> type, seq |-> server_seq, clientseq |-> client_message.seq,
     id |-> client_message.id, parameters |-> EmptyParams]

ServerMessage_StaleClientSeq(type, server_seq, client_message, parameters) ==
    [type |-> type, seq |-> server_seq, clientseq |-> client_message.seq - 1,
     id |-> client_message.id, parameters |-> parameters]

ServerMessage(type, server_seq, client_message, parameters) ==
    [type |-> type, seq |-> server_seq, clientseq |-> client_message.seq,
     id |-> client_message.id, parameters |-> parameters]

\* The part of send_message before its await: the new records and the envelope
\* handed to websocket.send_json.
SendMessage_SharedCounter(recs, tbl, type, client_message, parameters) ==
    IF SendRaises(tbl, client_message)
    THEN [raised |-> TRUE, rec |-> recs, r |-> NoConn, env |-> NoneVal]
    ELSE LET r == tbl[client_message.id]
             n == NextServerSeq(recs[r].server_seq)
         IN  [raised |-> FALSE, r |-> r,
              rec |-> [x \in DOMAIN recs |-> [recs[x] EXCEPT !.server_seq = n]],
              env |-> ServerMessage(type, n, client_message, parameters)]

SendMessage(recs, tbl, type, client_message, parameters) ==
    IF SendRaises(tbl, client_message)
    THEN [raised |-> TRUE, rec |-> recs, r |-> NoConn, env |-> NoneVal]
    ELSE LET r == tbl[client_message.id]
             n == NextServerSeq(recs[r].server_seq)
         IN  [raised |-> FALSE, r |-> r,
              rec |-> [recs EXCEPT ![r].server_seq = n],
              env |-> ServerMessage(type, n, client_message, parameters)]

\* An envelope in flight: the socket it goes to, the record it was numbered
\* from, the connection task that awaits the write (NoConn: a provider task) and
\* what that task does next.
Pending(out, websocket, task, next) ==
    [env |-> out.env, rec |-> out.r, sock |-> websocket, task |-> task, next |-> next,
     calls |-> provCalls[out.r]]

Emitted(out, websocket, last) ==
    [env |-> out.env, sock |-> websocket, ack |-> last]


\* A call of ws_session.send_message_callback made by the loop of connection c
\* while it handles a client message; an exception of send_message is not caught
\* in the receive loop.
Reply(c, w, recs, last, type, client_message, parameters, next) ==
    LET out == SendMessage(recs, table, type, client_message, parameters)
    IN  IF out.raised
        THEN /\ Crash(c)
             /\ rec' = recs
             /\ UNCHANGED <<pend, emit>>
        ELSE /\ rec' = out.rec
             /\ pend' = pend \cup {Pending(out, SessionSocket(w), c, next)}
             /\ emit' = [emit EXCEPT ![out.r] =
                            Append(@, Emitted(out, SessionSocket(w), last))]
             /\ pc' = [pc EXCEPT ![c] = "write"]
             /\ UNCHANGED result

\* remove_session: if session_id in self.active_ws_sessions: del ...
RemoveSession_Keeps(tbl, session_id) == tbl

RemoveSession_OtherKey(tbl, session_id) ==
    [s \in Sids |-> IF s # session_id THEN NoConn ELSE tbl[s]]

RemoveSession(tbl, session_id) ==
    IF session_id \in Sids THEN [tbl EXCEPT ![session_id] = NoConn] ELSE tbl

\* try: await websocket.send_json(...) except Exception as e: self.logger.error(...)
\* A failed write does not leave send_message.
WriteFailurePropagates_NoExcept(ok) == ~ok

WriteFailurePropagates(ok) == FALSE

\* await websocket.send_json(...) returns, or raises and the error is logged.
\* After the closed reply the handler removes the session and closes the socket.
WriteDone(p) ==
    /\ p \in pend
    /\ pend' = pend \ {p}
    /\ IF alive[p.sock]
          THEN sent' = [sent EXCEPT ![p.sock] = Append(@, [msg |-> p.env, rec |-> p.rec])]
          ELSE UNCHANGED sent
    /\ IF p.task = NoConn
          THEN UNCHANGED <<pc, result, table, closeCode>>
       ELSE IF WriteFailurePropagates(alive[p.sock])
          THEN Crash(p.task) /\ UNCHANGED <<table, closeCode>>
       ELSE /\ pc' = [pc EXCEPT ![p.task] = "recv"]
            /\ UNCHANGED result
            /\ IF p.next = "closed"
                  THEN /\ table' = RemoveSession(table, cur[p.task].id)
                       /\ closeCode' = [closeCode EXCEPT
                                          ![SessionSocket(wsess[p.task])] = 1000]
                  ELSE UNCHANGED <<table, closeCode>>
    /\ UNCHANGED <<aside, main, secret, event_publisher, effects, hdr, accepted, alive, dcall, joined, rec, wsess, cur, emit,
                   lastSeq, nText, provCalls, provRaised, frames, results,
                   hist, store>>

(* ------------------------------ the provider -------------------------- *)
\* initialize_session: a push stream, and create_task(_recognize_speech(...))
InitializeSession(session_id, media) ==
    [init |-> TRUE, stream |-> "open", task |-> "starting", media |-> media,
     sid |-> session_id, assist |-> 0, msgs |-> 0, written |-> 0]

EventParams == [startPaused |-> Absent, media |-> <<>>, entities |-> <<"entity">>]

\* ws_session.send_message_callback(type=EVENT, client_message={"id": session_id}, ...)
\* called from _on_recognized, handle_agent_assist or _flush_summary for record r.
\* Nothing awaits the coroutine of _on_recognized, and the two others catch.
ProviderSend(r, recs) ==
    LET out == SendMessage(recs, table, "event", ClientDict(recs[r].speech_session.sid),
                           EventParams)
    IN  /\ provCalls' = [provCalls EXCEPT ![r] = @ + 1]
        /\ IF out.raised
              THEN /\ provRaised' = [provRaised EXCEPT ![r] = @ + 1]
                   /\ rec' = recs
                   /\ UNCHANGED <<pend, emit>>
              ELSE /\ rec' = out.rec
                   /\ pend' = pend \cup {Pending(out, SessionSocket(r), NoConn, "none")}
                   /\ emit' = [emit EXCEPT ![out.r] =
                                  Append(@, Emitted(out, SessionSocket(r), lastSeq[r]))]
                   /\ UNCHANGED provRaised

Task(r) == rec[r].speech_session.task

\* _recognize_speech up to await done_event.wait(): configuring or starting the
\* recognizer may raise.
RecognitionStarts(r, ok) ==
    /\ Task(r) = "starting"
    /\ rec' = [rec EXCEPT ![r].speech_session.task = IF ok THEN "listening" ELSE "failed"]
    /\ UNCHANGED <<aside, main, secret, event_publisher, effects, pc, result, hdr, accepted, alive, sent, closeCode, dcall, joined,
                   table, wsess, cur, pend, emit, lastSeq, nText, provCalls, provRaised,
                   frames, results,
                   hist, store>>

\* loop = asyncio.get_running_loop(); each recognizer signal is connected to
\* lambda evt: loop.call_soon_threadsafe(callback, ...): the SDK calls the lambda
\* on one of its threads and the callback runs on the loop.
CallSoonThreadsafe_Direct(loop, thread) == thread

CallSoonThreadsafe(loop, thread) == loop

\* asyncio.run_coroutine_threadsafe(coro, loop): the coroutine runs on loop.
RunCoroutineThreadsafe(loop) == loop

\* The NBest[0].Words list of a final result.
WordLists == {<<>>, <<"word">>}

\* build_transcript_entity: "confidence": sum(...) / len(words) divides by zero
\* on an empty word list.
BuildTranscriptEntityRaises(words) == Len(words) = 0

\* _on_recognized: a final result; all but InitialSilenceTimeout schedule the
\* transcript update, the send_event call and the event message, in this order,
\* and create the assist task, which runs on the thread of the callback
\* and is appended to assist_futures.  A callback that raises while it
\* builds the transcript entity schedules nothing.  The recognizer gives at most
\* one result for each frame written to the audio stream.
OnRecognized(r, status, words) ==
    /\ Task(r) = "listening"
    /\ results < MaxResults
    /\ results < rec[r].speech_session.written
    /\ results' = results + 1
    /\ LET heard == [n |-> results + 1, status |-> status, words |-> Len(words)]
       IN  IF status = "InitialSilenceTimeout" \/ BuildTranscriptEntityRaises(words)
           THEN /\ effects' = [effects EXCEPT ![r].last = heard]
                /\ UNCHANGED rec
           ELSE /\ rec' = [rec EXCEPT ![r].speech_session.msgs = @ + 1,
                                      ![r].speech_session.assist = @ + 1]
                /\ effects' = [effects EXCEPT
                                 ![r].events = @ + 1,
                                 ![r].updates = Append(@, results + 1),
                                 ![r].threads = @ \cup {CallSoonThreadsafe("loop", "sdk")},
                                 ![r].last = heard]
    /\ UNCHANGED <<aside, main, secret, event_publisher, pc, result, hdr, accepted, alive, sent, closeCode, dcall, joined,
                   table, wsess, cur, pend, emit, lastSeq, nText, provCalls, provRaised,
                   frames,
                   hist, store>>

\* The coroutine scheduled by run_coroutine_threadsafe(send_message_callback(...)).
EventMessageTask(r) ==
    /\ rec[r].speech_session.msgs > 0
    /\ ProviderSend(r, [rec EXCEPT ![r].speech_session.msgs = @ - 1])
    /\ effects' = [effects EXCEPT ![r].threads = @ \cup {RunCoroutineThreadsafe("loop")}]
    /\ UNCHANGED <<aside, main, secret, event_publisher, pc, result, hdr, accepted, alive, sent, closeCode, dcall, joined,
                   table, wsess, cur, lastSeq, nText, frames, results,
                   hist, store>>

\* handle_agent_assist: on_transcription returns a summary or None.
AssistTask(r, summary) ==
    /\ rec[r].speech_session.assist > 0
    /\ LET recs == [rec EXCEPT ![r].speech_session.assist = @ - 1]
       IN  IF summary
           THEN ProviderSend(r, recs)
           ELSE rec' = recs /\ UNCHANGED <<pend, emit, provCalls, provRaised>>
    /\ UNCHANGED <<aside, main, secret, event_publisher, effects, pc, result, hdr, accepted, alive, sent, closeCode, dcall, joined,
                   table, wsess, cur, lastSeq, nText, frames, results,
                   hist, store>>

\* _on_session_stopped sets done_event once the closed stream is used up.
OnSessionStopped(r) ==
    /\ Task(r) = "listening"
    /\ rec[r].speech_session.stream = "closed"
    /\ rec' = [rec EXCEPT ![r].speech_session.task = "stopping"]
    /\ effects' = [effects EXCEPT ![r].threads = @ \cup {CallSoonThreadsafe("loop", "sdk")}]
    /\ UNCHANGED <<aside, main, secret, event_publisher, pc, result, hdr, accepted, alive, sent, closeCode, dcall, joined,
                   table, wsess, cur, pend, emit, lastSeq, nText, provCalls, provRaised,
                   frames, results,
                   hist, store>>

\* _await_pending_assist: every future of assist_futures is awaited, a failed one
\* is logged.
AwaitPendingAssist_Skipped(speech_session) == TRUE

AwaitPendingAssist(speech_session) == speech_session.assist = 0

\* stop_continuous_recognition, _await_pending_assist, then _flush_summary:
\* flush_summary returns a summary or None, or it raises, as append_summary may.
FlushSummary(r, summary, ok) ==
    /\ Task(r) = "stopping"
    /\ AwaitPendingAssist(rec[r].speech_session)
    /\ LET recs == [rec EXCEPT ![r].speech_session.task = IF ok THEN "done" ELSE "failed"]
       IN  IF summary /\ ok
           THEN ProviderSend(r, recs)
           ELSE rec' = recs /\ UNCHANGED <<pend, emit, provCalls, provRaised>>
    /\ UNCHANGED <<aside, main, secret, event_publisher, effects, pc, result, hdr, accepted, alive, sent, closeCode, dcall, joined,
                   table, wsess, cur, lastSeq, nText, frames, results,
                   hist, store>>

\* send_event: without a publisher it returns at once, for a session id that is
\* not in active_ws_sessions it does nothing, and a failure of
\* event_publisher.send_event is caught and logged.
PublishFailure_Raised == "raised"

PublishFailure == "logged"

SendEvent(publisher, tbl, session_id, ok) ==
    IF ~publisher THEN "none"
    ELSE IF ~(session_id \in Sids /\ tbl[session_id] # NoConn) THEN "absent"
    ELSE IF ok THEN "published"
    ELSE PublishFailure

\* The coroutine of run_coroutine_threadsafe(self.send_event(PARTIAL_TRANSCRIPT,
\* session_id, ...), loop); nothing reads its future.
SendEventTask(r, ok) ==
    /\ effects[r].events > 0
    /\ LET out == SendEvent(event_publisher, table, rec[r].speech_session.sid, ok)
       IN  effects' = [effects EXCEPT
                          ![r].events = @ - 1,
                          ![r].published = IF out = "published" THEN @ + 1 ELSE @,
                          ![r].raised = IF out = "raised" THEN @ + 1 ELSE @]
    /\ UNCHANGED <<aside, main, secret, event_publisher, pc, result, hdr, accepted, alive, sent,
                   closeCode, dcall, joined, table, rec, wsess, cur, pend, emit, lastSeq,
                   nText, provCalls, provRaised, frames, results, hist, store>>

\* The event loop runs what was scheduled in the order it was scheduled.
NextScheduled_Last(q) == Len(q)

NextScheduled(q) == 1

\* The coroutine _update of run_coroutine_threadsafe(_update(), loop): the item
\* goes to conversations_store.append_transcript, which may fail.
UpdateTask(r, ok) ==
    /\ effects[r].updates # <<>>
    /\ LET q == effects[r].updates
           i == NextScheduled(q)
       IN  effects' = [effects EXCEPT
                          ![r].updates = SubSeq(q, 1, i - 1) \o SubSeq(q, i + 1, Len(q)),
                          ![r].transcript = IF ok THEN Append(@, q[i]) ELSE @]
    /\ UNCHANGED <<aside, main, secret, event_publisher, pc, result, hdr, accepted, alive, sent,
                   closeCode, dcall, joined, table, rec, wsess, cur, pend, emit, lastSeq,
                   nText, provCalls, provRaised, frames, results, hist, store>>

\* handle_audio_frame: if ws_session.speech_session is None: log and return;
\* else speech_session.audio_buffer.write(data), a failed write is logged.
AudioWritten_NoGuard(speech_session) == TRUE

AudioWritten(speech_session) == speech_session.init

\* shutdown_session: if ws_session.speech_session is None: log and return,
\* before the finalize callback is looked at.
ShutdownReturnsAtOnce(speech_session) == ~speech_session.init

(* ---------------------------- message handler ------------------------- *)
\* An open received on a session that already has its conversation is a
\* protocol violation: it is logged and ignored.
OpenIgnored_Never(ws_session) == FALSE

OpenIgnored(ws_session) == ws_session.conversation_id # NoneVal

OpenedParams(media) == [startPaused |-> "false", media |-> media, entities |-> <<>>]

\* handle_incoming_message(client_message, ws_session): client_seq is taken from
\* the message, then the message is handled by its type.  An open on a session
\* that already has a conversation is logged and ignored, update is answered on
\* an initialized session, a message of no known type gets no reply.
\* close: shutdown_session(session_id, ws_session, finalize_callback) returns at
\* once on a session without speech session, else closes the audio stream, which
\* may raise and is logged, and awaits the recognition task.
HandleIncomingMessage(c, m, w) ==
    LET rec1 == [rec EXCEPT ![w].client_seq = m.seq]
    IN  /\ lastSeq' = [lastSeq EXCEPT ![w] = m.seq]
        /\ wsess' = [wsess EXCEPT ![c] = w]
        /\ cur' = [cur EXCEPT ![c] = m]
        /\ CASE m.type = "ping" ->
                  /\ Reply(c, w, rec1, m.seq, "pong", m, EmptyParams, "recv")
                  /\ UNCHANGED hist
             [] m.type = "update" /\ rec1[w].speech_session.init ->
                  /\ Reply(c, w, rec1, m.seq, "updated", m, EmptyParams, "recv")
                  /\ UNCHANGED hist
             [] m.type = "open" /\ ~OpenIgnored(rec1[w]) ->
                  /\ Reply(c, w,
                        [rec1 EXCEPT ![w].conversation_id = "conversation",
                                     ![w].speech_session = InitializeSession(m.id, m.media[1])],
                        m.seq, "opened", m, OpenedParams(m.media), "recv")
                  /\ UNCHANGED hist
             [] m.type = "close" /\ ~ShutdownReturnsAtOnce(rec1[w].speech_session) ->
                  /\ \E closes \in BOOLEAN :
                        rec' = [rec1 EXCEPT ![w].speech_session.stream =
                                                IF closes THEN "closed" ELSE @]
                  /\ pc' = [pc EXCEPT ![c] = "await"]
                  /\ hist' = [hist EXCEPT ![c].close = "handled", ![c].late = "none"]
                  /\ UNCHANGED <<result, pend, emit>>
             [] m.type = "close" /\ ShutdownReturnsAtOnce(rec1[w].speech_session) ->
                  /\ rec' = rec1
                  /\ hist' = [hist EXCEPT ![c].close = "dropped", ![c].late = "none"]
                  /\ UNCHANGED <<pc, result, pend, emit>>
             [] OTHER ->
                  /\ rec' = rec1
                  /\ UNCHANGED <<pc, result, pend, emit, hist>>

\* try: await task / except Exception: the exception of a failed recognition
\* task is logged and goes no further.
AwaitRaises_NoExcept(task) == task = "failed"

AwaitRaises(task) == FALSE

\* shutdown_session after "await task": a failed recognition task is logged;
\* finalize_callback sends the closed reply.
AwaitRecognition(c) ==
    /\ pc[c] = "await"
    /\ Task(wsess[c]) \in {"done", "failed"}
    /\ IF AwaitRaises(Task(wsess[c]))
          THEN Crash(c) /\ UNCHANGED <<rec, pend, emit>>
          ELSE Reply(c, wsess[c], rec, lastSeq[wsess[c]], "closed", cur[c], EmptyParams,
                     "closed")
    /\ hist' = [hist EXCEPT ![c].close = "finalized"]
    /\ UNCHANGED <<aside, main, secret, event_publisher, effects, hdr, accepted, alive, sent, closeCode, dcall, joined, table, wsess,
                   cur, lastSeq, nText, provCalls, provRaised, frames, results, store>>

(* ------------------------------ receive loop -------------------------- *)
\* Frames that arrived before the peer went away are still read.
Reading(c) == pc[c] = "recv" /\ frames < MaxFrames

\* A text frame that parses and validates: the client numbers its messages 1, 2, ...
\* and names a session id in each.
ReceiveText(c, type, id, media) ==
    /\ Reading(c)
    /\ frames' = frames + 1
    /\ nText' = [nText EXCEPT ![c] = @ + 1]
    /\ LET m == ClientModel(type, id, nText[c] + 1, media)
           w == table[hdr[c].sid]
       IN  IF w = NoConn
           THEN /\ Crash(c)
                /\ UNCHANGED <<rec, wsess, cur, pend, emit, lastSeq, hist>>
           ELSE HandleIncomingMessage(c, m, w)
    /\ UNCHANGED <<aside, main, secret, event_publisher, effects, hdr, accepted, alive, sent, closeCode, dcall, joined, table,
                   provCalls, provRaised, results, store>>

\* json.loads or model_validate_json raises on the frame.
ReceiveMalformed(c) ==
    /\ Reading(c)
    /\ frames' = frames + 1
    /\ Crash(c)
    /\ UNCHANGED <<aside, main, secret, event_publisher, effects, hdr, accepted, alive, sent, closeCode, dcall, joined, table, rec,
                   wsess, cur, pend, emit, lastSeq, nText, provCalls, provRaised,
                   results, hist, store>>

\* What became of a binary frame read after a close message.
Late(h, written) ==
    IF h.close = "none" THEN h.late
    ELSE IF written \/ h.late = "written" THEN "written"
    ELSE "unwritten"

\* A binary frame goes to handle_bytes with self.active_ws_sessions[session_id],
\* and from there to handle_audio_frame.
ReceiveBytes(c) ==
    /\ Reading(c)
    /\ frames' = frames + 1
    /\ LET w == table[hdr[c].sid]
           written == w # NoConn /\ AudioWritten(rec[w].speech_session)
       IN  /\ IF w = NoConn THEN Crash(c) ELSE UNCHANGED <<pc, result>>
           /\ rec' = IF written
                     THEN [rec EXCEPT ![w].speech_session.written = @ + 1]
                     ELSE rec
           /\ hist' = [hist EXCEPT ![c].bytes = @ + 1, ![c].late = Late(hist[c], written)]
    /\ UNCHANGED <<aside, main, secret, event_publisher, effects, hdr, accepted, alive, sent, closeCode, dcall, joined, table,
                   wsess, cur, pend, emit, lastSeq, nText, provCalls, provRaised,
                   results, store>>

\* A frame that is neither text nor bytes is logged.
ReceiveOther(c) ==
    /\ Reading(c)
    /\ frames' = frames + 1
    /\ UNCHANGED <<aside, main, secret, event_publisher, effects, pc, result, hdr, accepted, alive, sent, closeCode, dcall, joined,
                   table, rec, wsess, cur, pend, emit, lastSeq, nText, provCalls,
                   provRaised, results, hist, store>>

\* The task of the recognition a cancelled connection task was awaiting is
\* cancelled with it.
CancelAwaited(c) ==
    IF pc[c] = "await"
    THEN [rec EXCEPT ![wsess[c]].speech_session.task = "cancelled"]
    ELSE rec

\* ws_session = self.active_ws_sessions[session_id]; the argument of
\* conversations_store.set_active(ws_session.conversation_id, False).
SetActiveArgument(c) == rec[table[hdr[c].sid]].conversation_id

\* except asyncio.CancelledError: if session_id in self.active_ws_sessions, the
\* handler awaits conversations_store.set_active(conversation_id, False).
Cancel(c) ==
    /\ pc[c] \in {"recv", "write", "await"}
    /\ pend' = {p \in pend : p.task # c}
    /\ rec' = CancelAwaited(c)
    /\ IF Registered(hdr[c].sid)
          THEN /\ pc' = [pc EXCEPT ![c] = "cleanup"]
               /\ UNCHANGED result
          ELSE /\ pc' = [pc EXCEPT ![c] = "done"]
               /\ result' = [result EXCEPT ![c] = "cancelled"]
    /\ UNCHANGED <<aside, main, secret, event_publisher, effects, hdr, accepted, alive, sent, closeCode, dcall, joined, table, wsess,
                   cur, emit, lastSeq, nText, provCalls, provRaised, frames, results,
                   hist, store>>

\* The except block ends without a raise: handle_websocket returns.
CleanupResult_Reraised == "crashed"

CleanupResult == "cancelled"

\* set_active returns and del self.active_ws_sessions[session_id] follows, which
\* raises on a key deleted meanwhile; or set_active raises.
SetActive(c, ok) ==
    /\ pc[c] = "cleanup"
    /\ IF ok /\ Registered(hdr[c].sid)
          THEN /\ store' = [store EXCEPT ![c] = "inactive"]
               /\ table' = RemoveSession(table, hdr[c].sid)
               /\ pc' = [pc EXCEPT ![c] = "done"]
               /\ result' = [result EXCEPT ![c] = CleanupResult]
          ELSE /\ store' = [store EXCEPT ![c] = IF ok THEN "inactive" ELSE @]
               /\ Crash(c)
               /\ UNCHANGED table
    /\ UNCHANGED <<aside, main, secret, event_publisher, effects, hdr, accepted, alive, sent, closeCode, dcall, joined, rec, wsess,
                   cur, pend, emit, lastSeq, nText, provCalls, provRaised, frames, results,
                   hist>>

\* The peer goes away: what is written to the socket from now on fails.
PeerGone(c) ==
    /\ pc[c] \in {"recv", "write", "await"}
    /\ alive[c]
    /\ alive' = [alive EXCEPT ![c] = FALSE]
    /\ UNCHANGED <<aside, main, secret, event_publisher, effects, pc, result, hdr, accepted, sent, closeCode, dcall, joined, table,
                   rec, wsess, cur, pend, emit, lastSeq, nText, provCalls, provRaised,
                   frames, results, hist, store>>

(* ------------------------------ identity.py --------------------------- *)
MaxClock == 180

Scopes == {"cognitiveservices", "storage"}

\* The seconds a token of the credential is valid for, and the steps of the clock.
Lifetimes == {30, 90, 150}

Advances == {30}

\* time.time() < _cached_access_token.expires_on - 60
Margin == 60

CacheValid_NoMargin(token, now) == token # NoToken /\ now < token.expires_on

CacheValid(token, now) == token # NoToken /\ now < token.expires_on - Margin

\* token_credential.get_token(scope)
GetToken(scope, now, lifetime) ==
    [scope |-> scope, issued_at |-> now, expires_on |-> now + lifetime]

\* get_access_token(scope): the cached token if it is valid for more than 60
\* seconds; else get_token(scope), which raises or returns the token that
\* becomes the cache.  Both except clauses log and raise again.
GetAccessToken(scope, ok, lifetime) ==
    /\ IF CacheValid(cached_access_token, clock)
          THEN /\ token_call' = [made |-> TRUE, scope |-> scope, now |-> clock,
                                 requested |-> FALSE, raised |-> FALSE,
                                 returned |-> cached_access_token]
               /\ UNCHANGED cached_access_token
       ELSE IF ok
          THEN /\ cached_access_token' = GetToken(scope, clock, lifetime)
               /\ token_call' = [made |-> TRUE, scope |-> scope, now |-> clock,
                                 requested |-> TRUE, raised |-> FALSE,
                                 returned |-> GetToken(scope, clock, lifetime)]
       ELSE /\ token_call' = [made |-> TRUE, scope |-> scope, now |-> clock,
                              requested |-> TRUE, raised |-> TRUE, returned |-> NoToken]
            /\ UNCHANGED cached_access_token
    /\ UNCHANGED <<clock, manager, timing, main, secret, event_publisher, effects, pc, result,
                   hdr, accepted, alive, sent, closeCode, dcall, joined, table, rec, wsess,
                   cur, pend, emit, lastSeq, nText, provCalls, provRaised, frames, results,
                   hist, store>>

\* Time passes between two calls.
Tick(d) ==
    /\ clock < MaxClock
    /\ clock' = clock + d
    /\ UNCHANGED <<cached_access_token, token_call, manager, timing, main, secret,
                   event_publisher, effects, pc, result, hdr, accepted, alive, sent,
                   closeCode, dcall, joined, table, rec, wsess, cur, pend, emit, lastSeq,
                   nText, provCalls, provRaised, frames, results, hist, store>>

(* --------------------------- create_connections ----------------------- *)
Environments ==
    [SPEECH_PROVIDER : {Absent, "", "azure-ai-speech", "azure-openai-gpt4o-transcribe",
                        "other"},
     AZURE_SPEECH_REGION : BOOLEAN, AZURE_SPEECH_KEY : BOOLEAN,
     AZURE_SPEECH_RESOURCE_ID : BOOLEAN, AZURE_OPENAI_ENDPOINT : BOOLEAN,
     AZURE_OPENAI_MODEL_DEPLOYMENT : BOOLEAN, AZURE_EVENT_HUB : BOOLEAN]

\* os.getenv("SPEECH_PROVIDER", "azure-ai-speech")
SelectedSpeechProvider(env) ==
    IF env.SPEECH_PROVIDER = Absent THEN "azure-ai-speech" ELSE env.SPEECH_PROVIDER

\* The if/elif on the selected provider: the provider built, None when the
\* selection is empty or names neither provider, or RuntimeError when the
\* configuration of the selected provider is incomplete.
SelectSpeechProvider(env) ==
    LET selected == SelectedSpeechProvider(env)
    IN  IF selected = "azure-ai-speech"
        THEN IF /\ env.AZURE_SPEECH_REGION
                /\ (env.AZURE_SPEECH_KEY \/ env.AZURE_SPEECH_RESOURCE_ID)
             THEN [raised |-> NoneVal, provider |-> "AzureAISpeechProvider"]
             ELSE [raised |-> "RuntimeError", provider |-> NoneVal]
        ELSE IF selected = "azure-openai-gpt4o-transcribe"
        THEN IF env.AZURE_OPENAI_ENDPOINT /\ env.AZURE_OPENAI_MODEL_DEPLOYMENT
             THEN [raised |-> NoneVal, provider |-> "AzureOpenAIGPT4oTranscriber"]
             ELSE [raised |-> "RuntimeError", provider |-> NoneVal]
        ELSE [raised |-> NoneVal, provider |-> NoneVal]

\* create_connections: the conversation store and the event publisher are set
\* before the speech provider is selected, the three handlers after it.
CreateConnections(env) ==
    /\ manager.pc = "new"
    /\ LET out == SelectSpeechProvider(env)
           resources == [manager EXCEPT
                            !.env = env,
                            !.conversations_store = "ConversationStore",
                            !.event_publisher =
                                IF env.AZURE_EVENT_HUB THEN "EventPublisher" ELSE NoneVal]
       IN  manager' =
              IF out.raised # NoneVal
              THEN [resources EXCEPT !.pc = "raised", !.raised = out.raised]
              ELSE [resources EXCEPT !.pc = "returned",
                                     !.speech_provider = out.provider,
                                     !.health_handler = "HealthHandler",
                                     !.message_handler = "MessageHandler",
                                     !.media_handler = "MediaHandler"]
    /\ UNCHANGED <<cached_access_token, clock, token_call, timing, main, secret,
                   event_publisher, effects, pc, result, hdr, accepted, alive, sent,
                   closeCode, dcall, joined, table, rec, wsess, cur, pend, emit, lastSeq,
                   nText, provCalls, provRaised, frames, results, hist, store>>

(* ----------------------------- timing fields -------------------------- *)
\* Offset and Duration of a result, in ticks of 100 ns; none of them lies
\* halfway between two hundredths of a second.
Ticks == {0, 4900000, 10000000, 12345678, 25000000}

\* offset / 10_000_000
TicksPerSecond == 10000000

\* A value handed on as a timing field: a string by the format that made it and
\* the hundredths of a second it shows, or an integer.
\* f"PT{ticks / 10_000_000:.2f}S"
FormatDuration(ticks) ==
    [type |-> "str", format |-> "PT%.2fS",
     centis |-> (ticks + TicksPerSecond \div 200) \div (TicksPerSecond \div 100)]

\* The literals "end", "PT1S" and 0 of _flush_summary.
LiteralEnd == [type |-> "str", format |-> "end", centis |-> 0]

LiteralPT1S == [type |-> "str", format |-> "PT1S", centis |-> 100]

IntegerZero == [type |-> "int", format |-> "%d", centis |-> 0]

\* _on_recognized: start and end of the TranscriptItem, offset and duration of
\* the transcript entity of build_transcript_entity and of each of its words.
RecognizedFields(offset, duration, word) ==
    [start |-> FormatDuration(offset),
     end |-> FormatDuration(offset + duration),
     entity_offset |-> FormatDuration(offset),
     entity_duration |-> FormatDuration(duration),
     word_offset |-> FormatDuration(word.Offset),
     word_duration |-> FormatDuration(word.Duration)]

\* handle_agent_assist with a summary: the SummaryItem ends at the end of the
\* result, the utterance is placed at the offset of its first word.
AssistFields(offset, duration, first_word) ==
    [transcription_end |-> FormatDuration(offset + duration),
     position |-> FormatDuration(first_word.Offset),
     duration |-> FormatDuration(duration)]

\* _flush_summary with a summary: SummaryItem(transcription_end="end") and
\* build_agent_assist_utterance(position=0, ..., duration="PT1S").
FlushFields ==
    [transcription_end |-> LiteralEnd, position |-> IntegerZero, duration |-> LiteralPT1S]

Untimed ==
    <<cached_access_token, clock, token_call, manager, main, secret, event_publisher,
      effects, pc, result, hdr, accepted, alive, sent, closeCode, dcall, joined, table,
      rec, wsess, cur, pend, emit, lastSeq, nText, provCalls, provRaised, frames, results,
      hist, store>>

\* The result of a recognized callback; the first word starts at the offset of
\* the result or later.
BuildRecognized(offset, duration, word_offset) ==
    /\ word_offset <= duration
    /\ timing' = [source |-> "_on_recognized", offset |-> offset, duration |-> duration,
                  fields |-> RecognizedFields(offset, duration,
                                 [Offset |-> offset + word_offset, Duration |-> duration])]
    /\ UNCHANGED Untimed

BuildAssist(offset, duration, word_offset) ==
    /\ word_offset <= duration
    /\ timing' = [source |-> "handle_agent_assist", offset |-> offset,
                  duration |-> duration,
                  fields |-> AssistFields(offset, duration,
                                 [Offset |-> offset + word_offset, Duration |-> duration])]
    /\ UNCHANGED Untimed

BuildFlush ==
    /\ timing' = [source |-> "_flush_summary", offset |-> 0, duration |-> 0,
                  fields |-> FlushFields]
    /\ UNCHANGED Untimed

(* ------------------------------ specification ------------------------- *)
MessageTypes == {"open", "ping", "update", "close", "unknown"}

\* A complete request: every header present, the API key right.
CompleteHeaders == {GoodHeader(s) : s \in Sids}

\* One session on its own: a complete request, then any traffic and any
\* recognition results.
Single == {1}

Next ==
    \/ \E constructed \in BOOLEAN : Main(constructed)
    \/ \E c \in Single, h \in CompleteHeaders : Connect(c, h)
    \/ \E c \in Single : ValidateHeaders(c)
    \/ \E c \in Single : RegisterSession(c)
    \/ \E c \in Single, t \in MessageTypes \ {"open"}, id \in Sids :
          ReceiveText(c, t, id, <<>>)
    \/ \E c \in Single, id \in Sids, media \in MediaLists :
          ReceiveText(c, "open", id, media)
    \/ \E c \in Single : ReceiveMalformed(c)
    \/ \E c \in Single : ReceiveBytes(c)
    \/ \E c \in Single : ReceiveOther(c)
    \/ \E p \in pend : WriteDone(p)
    \/ \E c \in Single : AwaitRecognition(c)
    \/ \E c \in Single : Cancel(c)
    \/ \E c \in Single, ok \in BOOLEAN : SetActive(c, ok)
    \/ \E c \in Single : PeerGone(c)
    \/ \E r \in Single, ok \in BOOLEAN : RecognitionStarts(r, ok)
    \/ \E r \in Single, status \in {"Success", "InitialSilenceTimeout"},
             words \in WordLists :
          OnRecognized(r, status, words)
    \/ \E r \in Single : EventMessageTask(r)
    \/ \E r \in Single, summary \in BOOLEAN : AssistTask(r, summary)
    \/ \E r \in Single : OnSessionStopped(r)
    \/ \E r \in Single, summary \in BOOLEAN, ok \in BOOLEAN : FlushSummary(r, summary, ok)

\* Complete requests carry signature headers: the client secret plays no part.
InitConfigured == Init /\ secret = "secret" /\ event_publisher

Spec == InitConfigured /\ [][Next]_vars

\* The event loop runs every task that can run: a write that was started ends,
\* the recognition task and the tasks it spawned go on, the recognizer delivers
\* session-stopped once the closed stream is used up, and a connection task goes
\* on after what it awaited.  What the peer does is not forced.
Fairness ==
    /\ WF_vars(\E p \in pend : WriteDone(p))
    /\ WF_vars(\E c \in Single : AwaitRecognition(c))
    /\ WF_vars(\E r \in Single, ok \in BOOLEAN : RecognitionStarts(r, ok))
    /\ WF_vars(\E r \in Single : EventMessageTask(r))
    /\ WF_vars(\E r \in Single, summary \in BOOLEAN : AssistTask(r, summary))
    /\ WF_vars(\E r \in Single : OnSessionStopped(r))
    /\ WF_vars(\E r \in Single, summary \in BOOLEAN, ok \in BOOLEAN :
                  FlushSummary(r, summary, ok))

SpecLive == InitConfigured /\ [][Next]_vars /\ Fairness

\* Recognition: one session that is opened, fed with audio and closed or
\* cancelled, the recognizer's results and every coroutine they schedule, with
\* or without an event publisher.
InitRecognition == Init /\ secret = "secret"

NextRecognition ==
    \/ \E constructed \in BOOLEAN : Main(constructed)
    \/ \E c \in Single, h \in CompleteHeaders : Connect(c, h)
    \/ \E c \in Single : ValidateHeaders(c)
    \/ \E c \in Single : RegisterSession(c)
    \/ \E c \in Single, media \in MediaLists : ReceiveText(c, "open", hdr[c].sid, media)
    \/ \E c \in Single : ReceiveText(c, "close", hdr[c].sid, <<>>)
    \/ \E c \in Single : ReceiveBytes(c)
    \/ \E p \in pend : WriteDone(p)
    \/ \E c \in Single : AwaitRecognition(c)
    \/ \E c \in Single : Cancel(c)
    \/ \E c \in Single, ok \in BOOLEAN : SetActive(c, ok)
    \/ \E r \in Single, ok \in BOOLEAN : RecognitionStarts(r, ok)
    \/ \E r \in Single, status \in {"Success", "InitialSilenceTimeout"},
             words \in WordLists :
          OnRecognized(r, status, words)
    \/ \E r \in Single : EventMessageTask(r)
    \/ \E r \in Single, summary \in BOOLEAN : AssistTask(r, summary)
    \/ \E r \in Single : OnSessionStopped(r)
    \/ \E r \in Single, summary \in BOOLEAN, ok \in BOOLEAN : FlushSummary(r, summary, ok)
    \/ \E r \in Single, ok \in BOOLEAN : SendEventTask(r, ok)
    \/ \E r \in Single, ok \in BOOLEAN : UpdateTask(r, ok)

SpecRecognition == InitRecognition /\ [][NextRecognition]_vars

\* The handshake: the last connection presents any request, the ones before it
\* complete ones; pings that name the connection's own session are the only
\* traffic, read before the next connection arrives, and the conversation
\* store answers.
NextHandshake ==
    \/ \E constructed \in BOOLEAN : Main(constructed)
    \/ \E c \in Conns :
          /\ pc[c] = "idle"
          /\ \E h \in IF c = NumConns THEN AllHeaders ELSE CompleteHeaders : Connect(c, h)
    \/ \E c \in Conns : ValidateHeaders(c)
    \/ \E c \in Conns : RegisterSession(c)
    \/ \E c \in Conns :
          /\ \A d \in Conns : d > c => pc[d] = "idle"
          /\ ReceiveText(c, "ping", hdr[c].sid, <<>>)
    \/ \E p \in pend : WriteDone(p)
    \/ \E c \in Conns : Cancel(c)
    \/ \E c \in Conns : SetActive(c, TRUE)

InitHandshake == Init /\ event_publisher

SpecHandshake == InitHandshake /\ [][NextHandshake]_vars

(* ------------------------------ properties ---------------------------- *)
Last(q) == q[Len(q)]

\* The envelopes of a kind among those numbered from one session record.
OfType(q, type) == SelectSeq(q, LAMBDA e : e.env.type = type)

\* C1: within one session the envelopes send_message builds are numbered
\* 1, 2, 3, ... in the order they are built, the session's server_seq is the
\* number of the last one, and the socket of the session receives them with
\* these numbers whatever their types are.
C1_SeqContiguous ==
    \A r \in Conns :
        /\ \A i \in 1..Len(emit[r]) : emit[r][i].env.seq = i
        /\ rec[r].server_seq = Len(emit[r])
        /\ \A i \in 1..Len(sent[r]) : sent[r][i].msg.seq = i

C1_Witness ==
    \E r \in Conns :
        /\ Len(sent[r]) = 3
        /\ sent[r][1].msg.type = "opened"
        /\ sent[r][2].msg.type = "pong"
        /\ sent[r][3].msg.type = "closed"

C3_ClientSeqAcknowledged ==
    \A r \in Conns :
        /\ \A i \in 1..Len(emit[r]) : emit[r][i].env.clientseq = emit[r][i].ack
        /\ provRaised[r] = 0
        /\ Len(OfType(emit[r], "event")) = provCalls[r]

\* C4: a request with an empty Audiohook-Session-Id gets one disconnect message
\* of reason error with the info "No session ID provided", its socket is closed
\* with code 1008, no session is registered and no message is read, whatever
\* its other headers are.
C4_EmptySessionId ==
    \A c \in Conns :
        (pc[c] \notin {"idle", "validate"} /\ hdr[c].sid = "") =>
            /\ pc[c] = "done" /\ result[c] = "rejected"
            /\ Len(sent[c]) = 1
            /\ sent[c][1].msg.type = "disconnect"
            /\ sent[c][1].msg.reason = "error"
            /\ sent[c][1].msg.info = "No session ID provided"
            /\ closeCode[c] = 1008
            /\ ~joined[c] /\ \A s \in Sids : table[s] # c
            /\ nText[c] = 0

C4_Witness ==
    \E c \in Conns :
        /\ hdr[c].sid = "" /\ hdr[c].key = "bad" /\ pc[c] = "done"
        /\ \E s \in Sids : Registered(s)

\* C5: a request with a session id and an X-Api-Key other than the configured
\* key gets one disconnect message of reason unauthorized with the info
\* "Invalid API Key", its socket is closed with code 3000 and no session is
\* registered.
C5_InvalidApiKey ==
    \A c \in Conns :
        (pc[c] \notin {"idle", "validate"}
            /\ hdr[c].sid \in Sids /\ hdr[c].key \notin {Absent, ApiKey}) =>
            /\ pc[c] = "done" /\ result[c] = "rejected"
            /\ Len(sent[c]) = 1
            /\ sent[c][1].msg.type = "disconnect"
            /\ sent[c][1].msg.reason = "unauthorized"
            /\ sent[c][1].msg.info = "Invalid API Key"
            /\ closeCode[c] = 3000
            /\ ~joined[c] /\ \A s \in Sids : table[s] # c
            /\ nText[c] = 0

C5_Witness ==
    \E c \in Conns :
        /\ hdr[c].sid \in Sids /\ hdr[c].key = "bad" /\ pc[c] = "done"
        /\ hdr[c].sigin = "v" /\ hdr[c].sig = "v"

\* C6: a request with a session id, the configured API key and a correlation id
\* is rejected with unauthorized "Invalid signature" and code 3000 exactly when
\* the Signature-Input header, the Signature header and the client secret are
\* all absent or empty; in every other case its session is registered.
C6_SignatureRejection ==
    \A c \in Conns :
        (pc[c] \notin {"idle", "validate", "accepted"}
            /\ hdr[c].sid \in Sids /\ hdr[c].key = ApiKey /\ hdr[c].corr # Absent) =>
            IF /\ hdr[c].sigin \in {Absent, ""}
               /\ hdr[c].sig \in {Absent, ""}
               /\ secret \in {NoneVal, ""}
            THEN /\ ~joined[c]
                 /\ result[c] = "rejected"
                 /\ Last(sent[c]).msg.type = "disconnect"
                 /\ Last(sent[c]).msg.reason = "unauthorized"
                 /\ Last(sent[c]).msg.info = "Invalid signature"
                 /\ closeCode[c] = 3000
            ELSE joined[c]

\* C7: every rejection of a request (session id, API key, signature material)
\* is decided before the connection is accepted.
C7_ValidatedBeforeAccept ==
    \A c \in Conns : result[c] = "rejected" => ~accepted[c]

\* C8: a disconnect message always has seq 1 and clientseq 1, the socket it
\* went to is closed with the code passed to disconnect, and the call leaves
\* the counters of every session as they were.
C8_DisconnectFixedSeq ==
    /\ [](\A c \in Conns : dcall[c].made =>
            /\ Last(sent[dcall[c].target]).msg.type = "disconnect"
            /\ Last(sent[dcall[c].target]).msg.seq = 1
            /\ Last(sent[dcall[c].target]).msg.clientseq = 1
            /\ closeCode[dcall[c].target] = dcall[c].code)
    /\ [][(\E c \in Conns : ~dcall[c].made /\ dcall'[c].made) => rec' = rec]_vars

\* A disconnect was sent for a session id whose session had counted further.
C8_Witness ==
    \E c \in Conns :
        /\ dcall[c].made
        /\ dcall[c].owner # NoConn
        /\ rec[dcall[c].owner].server_seq >= 2
        /\ rec[dcall[c].owner].client_seq >= 2

\* C9: a disconnect for the session id of a registered session goes out over
\* the socket stored with that session.
C9_StoredSocketUsed ==
    \A c \in Conns :
        (dcall[c].made /\ dcall[c].owner # NoConn) =>
            dcall[c].target = SessionSocket(dcall[c].owner)

\* C10: an open message that names the connection's session and offers N media
\* descriptors leaves the session with exactly one opened reply; the reply to
\* the opening message carries exactly these N descriptors in their order and
\* startPaused false, and it is written to the socket.
C10_OpenedEchoesMedia ==
    \A c \in Conns :
        (cur[c].type = "open" /\ cur[c].id = hdr[c].sid) =>
            LET o == OfType(emit[c], "opened")
            IN  /\ Len(o) = 1
                /\ o[1].env.clientseq <= cur[c].seq
                /\ o[1].env.clientseq = cur[c].seq =>
                      /\ o[1].env.parameters.media = cur[c].media
                      /\ o[1].env.parameters.startPaused = "false"
                /\ (pc[c] = "recv" /\ alive[c]) =>
                      \E i \in 1..Len(sent[c]) : sent[c][i].msg = o[1].env
                /\ Len(SelectSeq(sent[c], LAMBDA e : e.msg.type = "opened")) <= 1

C10_Witness ==
    \E c \in Conns : \E i \in 1..Len(sent[c]) :
        /\ sent[c][i].msg.type = "opened"
        /\ cur[c].type = "open"
        /\ Len(sent[c][i].msg.parameters.media) = 2
        /\ sent[c][i].msg.parameters.media[1] # sent[c][i].msg.parameters.media[2]

\* Connection c reads a text message of the given type that names its own
\* session and is dispatched to the handler.
Dispatched(c, type) ==
    /\ nText'[c] = nText[c] + 1
    /\ table[hdr[c].sid] # NoConn
    /\ cur'[c].type = type
    /\ cur'[c].seq = nText'[c]
    /\ cur'[c].id = hdr[c].sid

\* The step builds exactly one reply of the given type for the message of c: it
\* is numbered one above the last envelope of the session, acknowledges the
\* message and is handed to the socket.
Answered(c, type) ==
    LET w == table[hdr[c].sid]
        prev == IF emit[w] = <<>> THEN 0 ELSE Last(emit[w]).env.seq
    IN  /\ Len(emit'[w]) = Len(emit[w]) + 1
        /\ Last(emit'[w]).env.type = type
        /\ Last(emit'[w]).env.seq = prev + 1
        /\ Last(emit'[w]).env.clientseq = cur'[c].seq
        /\ Cardinality(pend' \ pend) = 1
        /\ \A p \in pend' \ pend : p.env = Last(emit'[w]).env /\ p.sock = SessionSocket(w)

\* C11: every ping gets exactly one pong and every update on an opened session
\* exactly one updated; the reply has the seq after the last outbound message
\* and the clientseq of the message it answers, no pong or updated is built
\* otherwise, and the socket receives the pongs in the order of the pings.
C11_PingPong ==
    /\ [][\A c \in Conns :
            /\ Dispatched(c, "ping") => Answered(c, "pong")
            /\ (Dispatched(c, "update") /\ rec[table[hdr[c].sid]].speech_session.init)
                  => Answered(c, "updated")]_vars
    /\ [][\A r \in Conns : \A type \in {"pong", "updated"} :
            Len(OfType(emit'[r], type)) > Len(OfType(emit[r], type))
                => \E c \in Conns : Dispatched(c, IF type = "pong" THEN "ping" ELSE "update")]_vars
    /\ [](\A c \in Conns : \A i, j \in 1..Len(sent[c]) :
            (i < j /\ sent[c][i].msg.type = "pong" /\ sent[c][j].msg.type = "pong")
                => /\ sent[c][i].msg.seq < sent[c][j].msg.seq
                   /\ sent[c][i].msg.clientseq < sent[c][j].msg.clientseq)

\* Two pings in a row after the open, each answered on the socket.
C11_Witness ==
    \E c \in Conns :
        /\ Len(sent[c]) = 3
        /\ sent[c][1].msg.type = "opened"
        /\ sent[c][2].msg.type = "pong" /\ sent[c][2].msg.clientseq = 2
        /\ sent[c][3].msg.type = "pong" /\ sent[c][3].msg.clientseq = 3
        /\ sent[c][3].msg.seq = 3

\* C12: handling a ping changes client_seq and server_seq of the session and
\* nothing else: conversation id, speech session, the records of other sessions
\* and the session table stay as they are, also when the write of the pong ends.
C12_PingFrame ==
    /\ [][\A c \in Conns : Dispatched(c, "ping") =>
            LET w == table[hdr[c].sid]
            IN  /\ table' = table
                /\ rec' = [rec EXCEPT ![w].client_seq = cur'[c].seq,
                                      ![w].server_seq = rec[w].server_seq + 1]
                /\ store' = store /\ closeCode' = closeCode]_vars
    /\ [][(\E p \in pend \ pend' : p.env.type = "pong") =>
            /\ table' = table /\ rec' = rec
            /\ store' = store /\ closeCode' = closeCode]_vars

\* A ping was answered on an opened session, which is still opened and registered.
C12_Witness ==
    \E c \in Conns :
        /\ cur[c].type = "ping" /\ pc[c] = "recv"
        /\ sent[c] # <<>> /\ Last(sent[c]).msg.type = "pong"
        /\ rec[c].conversation_id # NoneVal /\ rec[c].speech_session.init
        /\ table[hdr[c].sid] = c

\* C13: once a connection has read a close message, no binary frame
\* it reads afterwards is written to an audio stream.
C13_NoAudioAfterClose ==
    \A c \in Conns : hist[c].late # "written"

\* C14: once the closed reply of a connection has been written to its socket,
\* the session id of the connection is not a key of the session table.
C14_ClosedThenRemoved ==
    \A c \in Conns :
        (\E i \in 1..Len(sent[c]) : sent[c][i].msg.type = "closed")
            => /\ hist[c].close = "finalized"
               /\ table[hdr[c].sid] = NoConn

C14_Witness ==
    \E c \in Conns :
        /\ joined[c] /\ sent[c] # <<>> /\ Last(sent[c]).msg.type = "closed"
        /\ ~Registered(hdr[c].sid)

\* C15: a binary frame read on a registered session whose speech session is
\* not set changes no session record, writes to no stream, raises nothing and
\* leaves the loop reading: only the frame is used up.
C15_EarlyAudioDropped ==
    [][\A c \in Conns :
          (/\ hist'[c].bytes = hist[c].bytes + 1
           /\ Registered(hdr[c].sid)
           /\ ~rec[table[hdr[c].sid]].speech_session.init)
          => /\ rec' = rec /\ table' = table
             /\ pc'[c] = "recv" /\ result' = result
             /\ pend' = pend /\ emit' = emit /\ sent' = sent
             /\ closeCode' = closeCode /\ store' = store]_vars

\* A binary frame came before the open; the open was read and answered after it.
C15_Witness ==
    \E c \in Conns :
        /\ hist[c].bytes >= 1 /\ hist[c].close = "none"
        /\ rec[c].speech_session.init /\ rec[c].speech_session.written = 0
        /\ sent[c] # <<>> /\ Last(sent[c]).msg.type = "opened"

\* C16: when handle_websocket has ended for a connection that had registered
\* its session, whatever stopped its receive loop, the session id of the
\* connection is not a key of the session table.
C16_LoopEndRemoves ==
    \A c \in Conns :
        (pc[c] = "done" /\ joined[c]) => table[hdr[c].sid] = NoConn

InLoop(c) == pc[c] \in {"recv", "write", "await"}

\* C17: a connection task cancelled while its session is registered does not
\* raise: it goes to the cleanup, where set_active(conversation_id, False) is
\* awaited; when that returns the conversation is marked inactive and the
\* session removed, and handle_websocket returns.  Nothing is written to the
\* socket and no disconnect is issued from the cancellation on.
C17_CancelCleanup ==
    /\ [][\A c \in Conns :
            (InLoop(c) /\ pc'[c] \notin {"recv", "write", "await"}
                /\ result'[c] # "crashed" /\ Registered(hdr[c].sid))
            => /\ pc'[c] = "cleanup"
               /\ table' = table /\ store' = store
               /\ sent' = sent /\ dcall' = dcall /\ closeCode' = closeCode]_vars
    /\ [][\A c \in Conns :
            (pc[c] = "cleanup" /\ pc'[c] # "cleanup")
            => /\ sent' = sent /\ dcall' = dcall /\ closeCode' = closeCode
               /\ (store'[c] = "inactive" /\ Registered(hdr[c].sid))
                     => (table'[hdr[c].sid] = NoConn /\ result'[c] = "cancelled")
               /\ table' # table => store'[c] = "inactive"]_vars
    /\ [](\A c \in Conns : pc[c] = "cleanup" => \A p \in pend : p.task # c)

\* A cancelled connection with an open conversation ended its cleanup.
C17_Witness ==
    \E c \in Conns :
        /\ pc[c] = "done" /\ result[c] = "cancelled" /\ store[c] = "inactive"
        /\ joined[c] /\ table[hdr[c].sid] = NoConn
        /\ rec[c].conversation_id # NoneVal

\* C18: when the write of a reply fails, the step that ends it leaves the
\* connection task in its receive loop with no exception, writes nothing and
\* keeps the session table as it is (the removal after a closed reply aside);
\* a connection in its loop whose peer is gone keeps its session registered.
C18_WriteFailureSwallowed ==
    /\ [][\A p \in pend \ pend' :
            (/\ p.task # NoConn /\ ~alive[p.sock]
             /\ pc'[p.task] # "cleanup" /\ result'[p.task] # "cancelled")
            => /\ pc'[p.task] = "recv"
               /\ result' = result /\ sent' = sent
               /\ p.next # "closed" => table' = table]_vars
    /\ [](\A c \in Conns :
            (InLoop(c) /\ ~alive[c] /\ hist[c].close # "finalized")
                => table[hdr[c].sid] = c)

\* Two replies were built and neither reached the socket; the loop reads on and
\* the session is registered.
C18_Witness ==
    \E c \in Conns :
        /\ ~alive[c] /\ Len(emit[c]) >= 2 /\ sent[c] = <<>>
        /\ pc[c] = "recv" /\ result[c] = "none"
        /\ table[hdr[c].sid] = c

\* The closed reply of connection c has been built.
ClosedBuilt(c) == \E i \in 1..Len(emit[c]) : emit[c][i].env.type = "closed"

C20_FinalizeOnce ==
    \A c \in Conns :
        hist[c].close \in {"dropped", "finalized"}
            => Len(OfType(emit[c], "closed")) = 1

\* C21: when the recognition task of a session has failed, the close of the
\* session (a close message that names the session) still builds the closed
\* reply without an exception in the connection task, and the step that ends
\* the write of that reply removes the session from the table.
C21_FailedTaskTolerated ==
    [][\A c \in Conns :
          (/\ Registered(hdr[c].sid) /\ wsess[c] = c /\ cur[c].id = hdr[c].sid
           /\ rec[c].speech_session.task = "failed")
          => /\ (pc[c] = "await" /\ pc'[c] \notin {"await", "cleanup"})
                  => /\ pc'[c] = "write" /\ result' = result
                     /\ \E p \in pend' \ pend :
                           p.env.type = "closed" /\ p.task = c /\ p.sock = c
             /\ \A p \in pend \ pend' :
                  (p.env.type = "closed" /\ pc'[c] # "cleanup")
                      => /\ table'[hdr[c].sid] = NoConn
                         /\ closeCode'[c] = 1000
                         /\ result' = result /\ pc'[c] = "recv"]_vars

\* The recognition task failed, the closed reply reached the peer, the session
\* is gone from the table and the connection task has not ended.
C21_Witness ==
    \E c \in Conns :
        /\ rec[c].speech_session.task = "failed"
        /\ sent[c] # <<>> /\ Last(sent[c]).msg.type = "closed"
        /\ ~Registered(hdr[c].sid) /\ joined[c]
        /\ pc[c] = "recv" /\ result[c] = "none"

\* C22: once a close message has been handled on an opened session, the
\* socket is eventually closed with 1000 after the closed reply, with the session
\* removed from the table, unless the connection task was cancelled or ended
\* with an exception meanwhile.
C22_TeardownCompletes ==
    \A c \in Conns :
        (hist[c].close = "handled")
            ~> \/ closeCode[c] = 1000 /\ ~Registered(hdr[c].sid)
               \/ pc[c] \in {"cleanup", "done"}

\* C23: a text frame of no known type is only logged: the message handler is
\* never given such a message, and the step that reads one changes no session
\* record and builds no envelope.
C23_UnknownOnlyLogged ==
    /\ [](\A c \in Conns : cur[c].type # "unknown")
    /\ [][\A c \in Conns :
            (nText'[c] = nText[c] + 1 /\ cur'[c].type = "unknown")
                => rec' = rec /\ emit' = emit /\ pend' = pend]_vars

\* C24: a frame read on a registered session that yields neither a validated
\* message nor audio (a malformed text frame) is dropped: the connection task
\* is still in its receive loop with no exception, and the session records and
\* the table are as before.
C24_MalformedDropped ==
    [][\A c \in Conns :
          (/\ pc[c] = "recv" /\ Registered(hdr[c].sid)
           /\ frames' = frames + 1
           /\ nText'[c] = nText[c] /\ hist'[c].bytes = hist[c].bytes)
          => /\ pc'[c] = "recv" /\ result' = result
             /\ rec' = rec /\ table' = table]_vars

\* C25: an open message dispatched on a session that is already open leaves
\* the conversation id and the speech session (handle, stream, task, media) as
\* they were and builds no reply; and once a session is open, no step gives it
\* another conversation id, other media or a recognition task that starts anew.
C25_InitializedOnce ==
    [][\A c \in Conns :
          /\ (/\ Dispatched(c, "open")
              /\ rec[c].conversation_id # NoneVal)
             => /\ rec'[c].conversation_id = rec[c].conversation_id
                /\ rec'[c].speech_session = rec[c].speech_session
                /\ emit' = emit /\ pend' = pend /\ pc'[c] = "recv"
          /\ rec[c].speech_session.init
             => /\ rec'[c].speech_session.init
                /\ rec'[c].conversation_id = rec[c].conversation_id
                /\ rec'[c].speech_session.media = rec[c].speech_session.media
                /\ rec'[c].speech_session.sid = rec[c].speech_session.sid
                /\ rec[c].speech_session.task # "starting"
                      => rec'[c].speech_session.task # "starting"]_vars

\* A second open, offering other media first, was read on an open session whose
\* recognition was already listening: the session still has the media of the
\* first open and one opened reply.
C25_Witness ==
    \E c \in Conns :
        /\ cur[c].type = "open" /\ cur[c].seq >= 2 /\ pc[c] = "recv"
        /\ cur[c].id = hdr[c].sid /\ table[hdr[c].sid] = c
        /\ \E i \in 1..Len(emit[c]) :
              emit[c][i].env.type = "opened" /\ emit[c][i].env.clientseq < cur[c].seq
        /\ Len(OfType(emit[c], "opened")) = 1
        /\ rec[c].speech_session.task = "listening"
        /\ rec[c].speech_session.media # cur[c].media[1]
        /\ rec[c].client_seq = cur[c].seq

\* C26: the table entry of a connection that is in its receive loop is not
\* replaced or removed by a step of another connection: while the connection
\* itself takes no step, the entry of its session id stays its own.
C26_EntryOwned ==
    [][\A c \in Conns :
          (/\ InLoop(c) /\ table[hdr[c].sid] = c
           /\ pc'[c] = pc[c])
          => table'[hdr[c].sid] = c]_vars

\* C27: send_event raises nothing, whatever the publisher and the table are;
\* the step that runs it leaves the session records, the table, the connection
\* tasks and every envelope as they were; and it publishes only with a publisher
\* configured and for a session id that is in the table.
C27_SendEventContained ==
    /\ [](\A r \in Conns : effects[r].raised = 0)
    /\ [][\A r \in Conns :
            effects'[r].events < effects[r].events
                => /\ rec' = rec /\ table' = table
                   /\ pc' = pc /\ result' = result
                   /\ pend' = pend /\ emit' = emit /\ sent' = sent
                   /\ effects'[r].published > effects[r].published
                         => /\ event_publisher
                            /\ Registered(rec[r].speech_session.sid)]_vars

\* Two results were recognized on a session that is still registered, with a
\* publisher configured: both send_event calls have run and one of them met a
\* failing publisher, and the loop reads on.
C27_Witness ==
    \E c \in Conns :
        /\ event_publisher
        /\ Len(effects[c].transcript) = 2
        /\ effects[c].events = 0 /\ effects[c].published = 1
        /\ table[hdr[c].sid] = c /\ hist[c].close = "none"
        /\ pc[c] = "recv" /\ result[c] = "none"

C29_StartOrExit ==
    /\ main.pc = "exited"
          => main.error = "RuntimeError" /\ main.status = 1 /\ main.runs = 0
    /\ main.pc = "running"
          => main.error = NoneVal /\ main.status = NoneVal /\ main.runs = 1
    /\ main.pc = "start" => main.runs = 0 /\ main.status = NoneVal
    /\ \A c \in Conns : pc[c] # "idle" => main.pc = "running"

\* The construction failed and the process is over.
C29_Witness == main.pc = "exited" /\ main.status = 1 /\ \A c \in Conns : pc[c] = "idle"

C31_AbsentSessionDropped ==
    [][\A c \in Conns :
          (/\ Reading(c) /\ ~Registered(hdr[c].sid)
           /\ (nText'[c] # nText[c] \/ hist'[c].bytes # hist[c].bytes))
             => pc'[c] = "recv" /\ result'[c] = result[c]]_vars

\* C32: set_active is never called with an unset conversation id: a connection
\* cancelled before any open was handled is torn down without the call.
C32_SetActiveHasConversation ==
    [][\A c \in Conns :
          (pc[c] # "cleanup" /\ pc'[c] = "cleanup")
             => SetActiveArgument(c) # NoneVal]_vars

\* C33: whatever a recognized or session-stopped callback does to a session,
\* and every send_message coroutine it schedules (the lookup in the session
\* table, the increment of server_seq, the socket write), runs on the event
\* loop, never on a thread of the recognizer.
C33_OnTheLoop ==
    \A r \in Conns : effects[r].threads \subseteq {"loop"}

\* A result was recognized, its event message coroutine has run and the
\* recognition session has stopped.
C33_Witness ==
    \E r \in Conns :
        /\ effects[r].threads = {"loop"}
        /\ results > 0 /\ provCalls[r] > 0
        /\ Task(r) \in {"stopping", "done"}

\* C34: when the recognition task of a session has completed, no assist task
\* created by a recognized result of the session is still pending and no
\* transcript append scheduled by one is still to run.
C34_DerivedWorkDone ==
    \A r \in Conns :
        Task(r) = "done" =>
            /\ rec[r].speech_session.assist = 0
            /\ effects[r].updates = <<>>

\* C35: every final result whose status is not InitialSilenceTimeout, one with
\* an empty word list included, schedules exactly one transcript append and one
\* event message and creates exactly one assist task; a result with status
\* InitialSilenceTimeout does none of these.
C35_OneOfEach ==
    [][\A r \in Conns :
          effects'[r].last.n # effects[r].last.n =>
             LET n == IF effects'[r].last.status = "InitialSilenceTimeout" THEN 0 ELSE 1
             IN  /\ Len(effects'[r].updates) = Len(effects[r].updates) + n
                 /\ rec'[r].speech_session.msgs = rec[r].speech_session.msgs + n
                 /\ rec'[r].speech_session.assist = rec[r].speech_session.assist + n]_vars

\* Calls of get_access_token at any times, with any scope and any outcome of
\* the credential.
NextIdentity ==
    \/ \E d \in Advances : Tick(d)
    \/ \E scope \in Scopes, ok \in BOOLEAN, lifetime \in Lifetimes :
          GetAccessToken(scope, ok, lifetime)

SpecIdentity == InitConfigured /\ [][NextIdentity]_vars

\* C37: get_access_token returns the cached token without asking the credential
\* exactly when a token is cached and the time is earlier than its expiry minus
\* 60 seconds; otherwise it asks for a token and, when it gets one, stores and
\* returns it; a failed request raises and leaves the cache as it was.  A token
\* served from the cache has more than 60 seconds left when it is returned.
C37_CacheServesValidToken ==
    /\ [](token_call.made /\ ~token_call.requested
             => token_call.returned.expires_on - token_call.now > 60)
    /\ [][token_call' # token_call =>
             LET cached == /\ cached_access_token # NoToken
                           /\ clock < cached_access_token.expires_on - 60
                 call == token_call'
             IN  /\ call.requested <=> ~cached
                 /\ ~call.requested =>
                       /\ call.returned = cached_access_token /\ ~call.raised
                       /\ cached_access_token' = cached_access_token
                 /\ call.requested /\ ~call.raised =>
                       /\ cached_access_token' = call.returned
                       /\ call.returned.issued_at = clock
                 /\ call.raised => cached_access_token' = cached_access_token]_vars

\* A token was served from the cache after time had passed since its issue.
C37_Witness ==
    /\ token_call.made /\ ~token_call.requested
    /\ token_call.now > token_call.returned.issued_at
    /\ token_call.returned = cached_access_token

\* C38: the token get_access_token(scope) returns was issued for that scope.
C38_TokenForScope ==
    token_call.made /\ ~token_call.raised
        => token_call.returned.scope = token_call.scope

\* create_connections under every environment.
NextConnections == \E env \in Environments : CreateConnections(env)

SpecConnections == InitConfigured /\ [][NextConnections]_vars

\* C39: create_connections either raises RuntimeError and leaves the message,
\* media and health handlers unset, or returns with the three handlers set and a
\* speech provider that is not None, whatever SPEECH_PROVIDER is.
C39_HandlersWithProvider ==
    manager.pc # "new" =>
        \/ /\ manager.raised = "RuntimeError"
           /\ manager.message_handler = NoneVal
           /\ manager.media_handler = NoneVal
           /\ manager.health_handler = NoneVal
        \/ /\ manager.raised = NoneVal
           /\ manager.message_handler # NoneVal
           /\ manager.media_handler # NoneVal
           /\ manager.health_handler # NoneVal
           /\ manager.speech_provider # NoneVal

\* What the provider builds for results of any offset and duration.
NextTiming ==
    \/ \E offset \in Ticks, duration \in Ticks, word_offset \in Ticks :
          BuildRecognized(offset, duration, word_offset)
    \/ \E offset \in Ticks, duration \in Ticks, word_offset \in Ticks :
          BuildAssist(offset, duration, word_offset)
    \/ BuildFlush

SpecTiming == InitConfigured /\ [][NextTiming]_vars

\* C36: every timing field of what the provider builds is a string PT<seconds>S
\* with two decimals, the final summary of _flush_summary included; start and end
\* of a recognized result show Offset and Offset + Duration in seconds, so that
\* start <= end.
C36_TimingFields ==
    /\ \A f \in DOMAIN timing.fields :
          timing.fields[f].type = "str" /\ timing.fields[f].format = "PT%.2fS"
    /\ timing.source = "_on_recognized" =>
          /\ timing.fields.start.centis * 100000 - timing.offset \in -50000..50000
          /\ timing.fields.end.centis * 100000 - (timing.offset + timing.duration)
                \in -50000..50000
          /\ timing.fields.start.centis <= timing.fields.end.centis

=============================================================================
